---- MODULE Spec2Model ----
(***************************************************************************)
(* Model of src/main.rs: an RTIC application for the micro:bit.  A GPIOTE  *)
(* interrupt handler (button_pressed, priority 3) spawns two software      *)
(* tasks (button_a_action, priority 1; button_b_action, priority 2) that   *)
(* animate the LED display, while idle (priority 0) runs a background      *)
(* animation.  display and timer are shared under the priority-ceiling     *)
(* protocol (BASEPRI based locks).                                         *)
(***************************************************************************)
EXTENDS Bags, FiniteSets, Integers, Sequences, TLC

\* ---------------------------------------------------------------- bounds
\* Number of button edges the environment produces in one run.
MaxEdges == 3
\* Number of full idle cycles explored (idle_count is unbounded in the code).
MaxIdleCount == 1
\* compose_string exploration: capacity and list length of the inputs.
MaxCap == 4
MaxParts == 3

\* ------------------------------------------------------- program constants
TaskFrames == 5
GridSize == 5
TaskDuration == 400
IdleDuration == 250
MsgCapShort == 32 - 1    \* a message buffer one character shorter (mutant)
MsgCap == 32
DigitCap == 10

\* -------------------------------------------------------------- contexts
Idle == "idle"
TaskA == "button_a_action"
TaskB == "button_b_action"
Handler == "button_pressed"

SwTasks == {TaskA, TaskB}
Contexts == {Idle, TaskA, TaskB, Handler}
Resources == {"gpiote", "display", "timer"}

\* The channels wired to each other's task (mutant).
TaskOfSwapped(c) == IF c = 0 THEN TaskB ELSE TaskA

\* The software task bound to a GPIOTE channel.
TaskOf(c) == IF c = 0 THEN TaskA ELSE TaskB

\* The priorities of the two software tasks exchanged (mutant).
PrioritySwapped(t) ==
    CASE t = Idle    -> 0
      [] t = TaskA   -> 2
      [] t = TaskB   -> 1
      [] t = Handler -> 3

\* Static priorities of the #[task]/#[idle] attributes.
Priority(t) ==
    CASE t = Idle    -> 0
      [] t = TaskA   -> 1
      [] t = TaskB   -> 2
      [] t = Handler -> 3

\* The contexts that list a resource in `shared = [...]`.
Users(r) ==
    CASE r = "gpiote"  -> {Handler}
      [] r = "display" -> {Idle, TaskA, TaskB}
      [] r = "timer"   -> {Idle, TaskA, TaskB}

MaxOf(S) == CHOOSE m \in S : \A n \in S : n <= m

\* A ceiling that forgets the priority-2 task (mutant).
CeilingLow(r) == MaxOf({Priority(t) : t \in Users(r) \ {TaskB}})

\* Ceiling of a resource: the maximum priority of the contexts that lock it.
Ceiling(r) == MaxOf({Priority(t) : t \in Users(r)})

\* ---------------------------------------------------------------- strings
Digit == <<"0", "1", "2", "3", "4", "5", "6", "7", "8", "9">>

\* write!(&mut s, "{}", count): the decimal digits of count.
RECURSIVE Decimal(_)
Decimal(n) == IF n < 10 THEN Digit[n + 1]
              ELSE Decimal(n \div 10) \o Digit[(n % 10) + 1]

Err == [ok |-> FALSE]
Ok(s) == [ok |-> TRUE, val |-> s]

\* push_str that never fails (mutant).
PushStrNoCheck(s, x, N) == Ok(s \o x)

\* heapless String<N>::push_str: all of x is appended, or nothing and Err.
PushStr(s, x, N) == IF Len(s) + Len(x) > N THEN Err ELSE Ok(s \o x)

\* compose_string::<N>(xs): push the parts in order, `?` returns the first Err.
RECURSIVE ComposeFrom(_, _, _)
ComposeFrom(s, xs, N) ==
    IF xs = <<>> THEN Ok(s)
    ELSE LET r == PushStr(s, Head(xs), N)
         IN  IF r.ok THEN ComposeFrom(r.val, Tail(xs), N) ELSE Err

compose_string(N, xs) == ComposeFrom("", xs, N)

\* A u32 too large for one model integer is held as two 16-bit limbs,
\* count = hi * 2^16 + lo; its decimal digits by long division by 10.
RECURSIVE DecimalU32(_, _)
DecimalU32(hi, lo) ==
    IF hi = 0 /\ lo < 10 THEN Digit[lo + 1]
    ELSE LET t == (hi % 10) * 65536 + lo
         IN  DecimalU32(hi \div 10, t \div 10) \o Digit[(t % 10) + 1]

\* log_count once count is formatted: write! into the String<10> fails when
\* the digits exceed its capacity, then compose_string::<32>; Err where one
\* of the two unwraps panics.
log_count_digits(message, digits) ==
    LET s == PushStr("", digits, DigitCap)
    IN  IF s.ok THEN compose_string(MsgCap, <<message, s.val>>) ELSE Err

\* The message log_count prints, or Err where one of its unwraps panics.
log_count_msg(message, count) == log_count_digits(message, Decimal(count))

\* ------------------------------------------------------------------- leds
NoLeds == {}
Cells == (0 .. GridSize - 1) \X (0 .. GridSize - 1)
\* The table with its last position missing (mutant).
led_states_short == << <<1,1>>, <<1,2>>, <<1,3>>, <<2,3>>, <<3,3>>, <<3,2>>, <<3,1>> >>

\* The cycle with two of its positions exchanged (mutant).
led_states_swapped ==
    << <<1, 1>>, <<1, 2>>, <<1, 3>>, <<2, 3>>,
       <<3, 3>>, <<3, 1>>, <<3, 2>>, <<2, 1>> >>

led_states == << <<1,1>>, <<1,2>>, <<1,3>>, <<2,3>>, <<3,3>>, <<3,2>>, <<3,1>>, <<2,1>> >>
NoFrame == [by |-> "none", leds |-> NoLeds, dur |-> 0]

\* The fill loop with its indices swapped (mutant).
FillATransposed(x) == {<<y, x>> : y \in 0 .. GridSize - 1}

\* button_a_action: for y in 0..5 { leds[x][y] = 1 }
FillA(x) == {<<x, y>> : y \in 0 .. GridSize - 1}
\* button_b_action: for y in 0..5 { leds[y][x] = 1 }
FillB(x) == {<<y, x>> : y \in 0 .. GridSize - 1}

\* ------------------------------------------------------------------ state
VARIABLES
    pc,        \* position of each context in its code
    stack,     \* preemption stack; the last element owns the processor
    basepri,   \* BASEPRI register (logical priority, 0 = nothing masked)
    saved,     \* per context: the BASEPRI values saved by its open locks
    holders,   \* per resource: the contexts inside a lock on it
    chan,      \* GPIOTE event flag of channel 0 and 1
    exec,      \* per software task: its executor is allocated
    ready,     \* per software task: dispatch requests not yet served
    local,     \* the #[local] counters
    x,         \* per context: loop index
    leds,      \* per context: its local `leds` grid (set of lit cells)
    frame,     \* what the display is showing
    sink,      \* bag of the messages passed to logging::print
    panicked,  \* an unwrap failed
    hist,      \* history: edges, handled events, frames rendered
    cs,        \* one call of a pure function (see SpecCompose, SpecLog)
    live       \* TRUE in runs that leave the counters, the log and hist unrecorded

vars == <<pc, stack, basepri, saved, holders, chan, exec, ready, local, x,
          leds, frame, sink, panicked, hist, cs, live>>

Top == stack[Len(stack)]
Active(t) == \E i \in 1 .. Len(stack) : stack[i] = t
Held(t) == {r \in Resources : t \in holders[r]}

\* The counters, the log and hist never decide a branch of the program. A run
\* with live = TRUE leaves them at their initial values, so that a run of
\* unboundedly many button events has finitely many states (see SpecLive).
Track(new, old) == IF live THEN old ELSE new

\* logging::print(msg)
print(msg) == sink (+) SetToBag({msg})

NoCompose == [N |-> 0, xs |-> <<>>, called |-> FALSE, res |-> Err]

InitMain ==
    /\ pc = [t \in Contexts |-> IF t = Idle THEN "start" ELSE "inactive"]
    /\ stack = <<Idle>>
    /\ basepri = 0
    /\ saved = [t \in Contexts |-> <<>>]
    /\ holders = [r \in Resources |-> {}]
    /\ chan = [c \in 0 .. 1 |-> FALSE]
    /\ exec = [t \in SwTasks |-> FALSE]
    /\ ready = [t \in SwTasks |-> 0]
    /\ local = [button_pressed |-> 0, button_a |-> 0, button_b |-> 0,
                idle_count |-> 0]
    /\ x = [t \in Contexts |-> 0]
    /\ leds = [t \in Contexts |-> NoLeds]
    /\ frame = NoFrame
    /\ sink = SetToBag({"in init"})
    /\ panicked = FALSE
    /\ hist = [edges   |-> [c \in 0 .. 1 |-> 0],
               handled |-> [c \in 0 .. 1 |-> 0],
               busy    |-> [c \in 0 .. 1 |-> 0],
               failed  |-> [c \in 0 .. 1 |-> 0],
               shown   |-> [t \in Contexts |-> 0],
               act     |-> [t \in Contexts |-> 0]]

Init == InitMain /\ cs = NoCompose /\ live = FALSE


\* ------------------------------------------------------------- scheduling
\* A spawn that never pends the dispatcher of its task (mutant).
PendingHandlerOnly(t) == ~Active(t) /\ t = Handler /\ (chan[0] \/ chan[1])

\* An interrupt is pending: GPIOTE while an event flag is set, a dispatcher
\* (SWI0_EGU0 / SWI1_EGU1) while its task has an unserved dispatch request.
Pending(t) ==
    /\ ~Active(t)
    /\ IF t = Handler THEN chan[0] \/ chan[1]
       ELSE t \in SwTasks /\ ready[t] > 0

\* An NVIC that ignores BASEPRI (mutant).
CanPreemptAnyBasepri(t) == Pending(t) /\ Priority(t) > Priority(Top)

\* NVIC: a pending interrupt is taken when its priority exceeds both the
\* priority of the running context and BASEPRI.
CanPreempt(t) ==
    /\ Pending(t)
    /\ Priority(t) > Priority(Top)
    /\ Priority(t) > basepri

\* A dispatch that takes any interrupt able to preempt, not the highest (mutant).
NextUpAny(t) == ~panicked /\ CanPreempt(t)

NextUp(t) ==
    /\ ~panicked
    /\ CanPreempt(t)
    /\ \A u \in Contexts : CanPreempt(u) => Priority(u) <= Priority(t)

\* Context t owns the processor and no interrupt is about to preempt it.
Runs(t) ==
    /\ ~panicked
    /\ Top = t
    /\ \A u \in Contexts : ~CanPreempt(u)

Pop == SubSeq(stack, 1, Len(stack) - 1)

\* ------------------------------------------------------------------ locks
\* A lock that leaves BASEPRI alone (mutant).
RaiseNot(current, ceiling) == current

\* Mutex::lock entry: BASEPRI is raised to the ceiling of the resource.
Raise(current, ceiling) == IF ceiling > current THEN ceiling ELSE current

\* A lock exit that keeps the elevated priority (mutant).
RestoreKeep(previous, current) == current

\* Mutex::lock exit: BASEPRI gets the value it had before the lock.
Restore(previous, current) == previous

LockEnter(t, r) ==
    /\ saved' = [saved EXCEPT ![t] = Append(@, basepri)]
    /\ basepri' = Raise(basepri, Ceiling(r))
    /\ holders' = [holders EXCEPT ![r] = @ \cup {t}]

LockExit(t, r) ==
    /\ basepri' = Restore(saved[t][Len(saved[t])], basepri)
    /\ saved' = [saved EXCEPT ![t] = SubSeq(@, 1, Len(@) - 1)]
    /\ holders' = [holders EXCEPT ![r] = @ \ {t}]

\* log_count(message, count): print the message, or panic in an unwrap.
LogCount(message, count) ==
    LET m == log_count_msg(message, count)
    IN  /\ panicked' = ~m.ok
        /\ sink' = Track(IF m.ok THEN print(m.val) ELSE sink, sink)

\* ------------------------------------------------------------ environment
\* A falling edge on a button sets the event flag of its channel.
Edge(c) ==
    /\ ~panicked
    /\ hist.edges[0] + hist.edges[1] < MaxEdges
    /\ chan' = [chan EXCEPT ![c] = TRUE]
    /\ hist' = Track([hist EXCEPT !.edges[c] = @ + 1], hist)
    /\ UNCHANGED <<pc, stack, basepri, saved, holders, exec, ready, local, x,
                   leds, frame, sink, panicked, cs, live>>

\* --------------------------------------------------------- button_pressed
\* A handler that also counts its run as an activation of button_a_action
\* (mutant).
HEnterCountsTask ==
    /\ NextUp(Handler)
    /\ stack' = Append(stack, Handler)
    /\ local' = [local EXCEPT !.button_pressed = @ + 1, !.button_a = @ + 1]
    /\ LogCount("button pressed count: ", local.button_pressed + 1)
    /\ LockEnter(Handler, "gpiote")
    /\ pc' = [pc EXCEPT ![Handler] = "chan0"]
    /\ UNCHANGED <<chan, exec, ready, x, leds, frame, hist, cs, live>>

\* Interrupt entry, the invocation counter and its log line, gpiote.lock.
HEnter ==
    /\ NextUp(Handler)
    /\ stack' = Append(stack, Handler)
    /\ local' = Track([local EXCEPT !.button_pressed = @ + 1], local)
    /\ LogCount("button pressed count: ", local.button_pressed + 1)
    /\ LockEnter(Handler, "gpiote")
    /\ pc' = [pc EXCEPT ![Handler] = "chan0"]
    /\ UNCHANGED <<chan, exec, ready, x, leds, frame, hist, cs, live>>

\* A spawn that takes the slot to be free once the instance has started (mutant).
SpawnIfNotPending(t) == ready[t] = 0

\* A spawn with its test inverted (mutant).
SpawnInverted(t) == exec[t]

\* A spawn that does not look at the executor (mutant).
SpawnAlways(t) == TRUE

\* button_x_action::spawn() succeeds when the task's executor is free.
SpawnOk(t) == ~exec[t]

ButtonMsg(c) == IF c = 0 THEN "Button A pressed" ELSE "Button B pressed"

\* if chanN.is_event_triggered() { print; reset_events; spawn or print }
HChan(c) ==
    /\ Runs(Handler)
    /\ pc[Handler] = IF c = 0 THEN "chan0" ELSE "chan1"
    /\ pc' = [pc EXCEPT ![Handler] = IF c = 0 THEN "chan1" ELSE "exit"]
    /\ IF chan[c]
       THEN LET t == TaskOf(c)
            IN  /\ chan' = [chan EXCEPT ![c] = FALSE]
                /\ IF SpawnOk(t)
                   THEN /\ exec' = [exec EXCEPT ![t] = TRUE]
                        /\ ready' = [ready EXCEPT ![t] = @ + 1]
                        /\ sink' = Track(print(ButtonMsg(c)), sink)
                   ELSE /\ UNCHANGED <<exec, ready>>
                        /\ sink' = Track(print(ButtonMsg(c))
                                           (+) SetToBag({"failed to spawn task!"}),
                                         sink)
                /\ hist' = Track([hist EXCEPT
                              !.handled[c] = @ + 1,
                              !.busy[c] = @ + (IF exec[t] THEN 1 ELSE 0),
                              !.failed[c] = @ + (IF SpawnOk(t) THEN 0 ELSE 1)],
                           hist)
       ELSE UNCHANGED <<chan, exec, ready, sink, hist>>
    /\ UNCHANGED <<stack, basepri, saved, holders, local, x, leds, frame,
                   panicked, cs, live>>

\* End of the gpiote.lock closure and return from the interrupt.
HExit ==
    /\ Runs(Handler)
    /\ pc[Handler] = "exit"
    /\ LockExit(Handler, "gpiote")
    /\ stack' = Pop
    /\ pc' = [pc EXCEPT ![Handler] = "inactive"]
    /\ UNCHANGED <<chan, exec, ready, local, x, leds, frame, sink, panicked,
                   hist, cs, live>>

HandlerStep == HEnter \/ HChan(0) \/ HChan(1) \/ HExit


\* ------------------------------------ button_a_action / button_b_action
\* Both tasks log under each other's prefix (mutant).
PrefixSwapped(t) == IF t = TaskA THEN "Task B count: " ELSE "Task A count: "

\* Both tasks count in button_a (mutant).
CounterShared(t) == "button_a"

Counter(t) == IF t = TaskA THEN "button_a" ELSE "button_b"
Prefix(t) == IF t = TaskA THEN "Task A count: " ELSE "Task B count: "
Fill(t, i) == IF t = TaskA THEN FillA(i) ELSE FillB(i)

\* The dispatcher of the task's priority level polls the task: activation
\* counter, its log line, leds = leds_empty.
TStart(t) ==
    /\ NextUp(t)
    /\ ready' = [ready EXCEPT ![t] = @ - 1]
    /\ stack' = Append(stack, t)
    /\ local' = Track([local EXCEPT ![Counter(t)] = @ + 1], local)
    /\ LogCount(Prefix(t), local[Counter(t)] + 1)
    /\ x' = [x EXCEPT ![t] = 0]
    /\ leds' = [leds EXCEPT ![t] = NoLeds]
    /\ pc' = [pc EXCEPT ![t] = "loop"]
    /\ UNCHANGED <<basepri, saved, holders, chan, exec, frame, hist, cs, live>>

\* for x in 0..5: light the cells of frame x, enter the lock on display.
TLockDisplay(t) ==
    /\ Runs(t)
    /\ pc[t] = "loop"
    /\ x[t] < TaskFrames
    /\ leds' = [leds EXCEPT ![t] = @ \cup Fill(t, x[t])]
    /\ LockEnter(t, "display")
    /\ pc' = [pc EXCEPT ![t] = "lock_timer"]
    /\ UNCHANGED <<stack, chan, exec, ready, local, x, frame, sink, panicked,
                   hist, cs, live>>

\* (&mut display, &mut timer).lock nests the lock on timer in it.
TLockTimer(t) ==
    /\ Runs(t)
    /\ pc[t] = "lock_timer"
    /\ LockEnter(t, "timer")
    /\ pc' = [pc EXCEPT ![t] = "show"]
    /\ UNCHANGED <<stack, chan, exec, ready, local, x, leds, frame, sink,
                   panicked, hist, cs, live>>

\* d.show(t, leds, 400) starts driving the grid ...
TShowBegin(t) ==
    /\ Runs(t)
    /\ pc[t] = "show"
    /\ frame' = [by |-> t, leds |-> leds[t], dur |-> TaskDuration]
    /\ pc' = [pc EXCEPT ![t] = "showing"]
    /\ UNCHANGED <<stack, basepri, saved, holders, chan, exec, ready, local,
                   x, leds, sink, panicked, hist, cs, live>>

\* ... and returns when the duration has elapsed.
TShowEnd(t) ==
    /\ Runs(t)
    /\ pc[t] = "showing"
    /\ frame' = NoFrame
    /\ hist' = Track([hist EXCEPT !.shown[t] = @ + 1], hist)
    /\ pc' = [pc EXCEPT ![t] = "unlock_timer"]
    /\ UNCHANGED <<stack, basepri, saved, holders, chan, exec, ready, local,
                   x, leds, sink, panicked, cs, live>>

TUnlockTimer(t) ==
    /\ Runs(t)
    /\ pc[t] = "unlock_timer"
    /\ LockExit(t, "timer")
    /\ pc' = [pc EXCEPT ![t] = "unlock_display"]
    /\ UNCHANGED <<stack, chan, exec, ready, local, x, leds, frame, sink,
                   panicked, hist, cs, live>>

\* End of the lock closure; leds = leds_empty; next x.
TUnlockDisplay(t) ==
    /\ Runs(t)
    /\ pc[t] = "unlock_display"
    /\ LockExit(t, "display")
    /\ leds' = [leds EXCEPT ![t] = NoLeds]
    /\ x' = [x EXCEPT ![t] = @ + 1]
    /\ pc' = [pc EXCEPT ![t] = "loop"]
    /\ UNCHANGED <<stack, chan, exec, ready, local, frame, sink, panicked,
                   hist, cs, live>>

\* The async fn returns: the executor is freed, the dispatcher returns.
TReturn(t) ==
    /\ Runs(t)
    /\ pc[t] = "loop"
    /\ x[t] >= TaskFrames
    /\ exec' = [exec EXCEPT ![t] = FALSE]
    /\ stack' = Pop
    /\ pc' = [pc EXCEPT ![t] = "inactive"]
    /\ hist' = Track([hist EXCEPT !.act[t] = @ + 1], hist)
    /\ UNCHANGED <<basepri, saved, holders, chan, ready, local, x, leds,
                   frame, sink, panicked, cs, live>>

TaskStep(t) ==
    \/ TStart(t) \/ TLockDisplay(t) \/ TLockTimer(t) \/ TShowBegin(t)
    \/ TShowEnd(t) \/ TUnlockTimer(t) \/ TUnlockDisplay(t) \/ TReturn(t)

\* ------------------------------------------------------------------- idle
key == "hello"

\* print("idling..."), print(compose_string::<32>(["The key is: ", key]).unwrap())
IdleStart ==
    /\ Runs(Idle)
    /\ pc[Idle] = "start"
    /\ LET m == compose_string(MsgCap, <<"The key is: ", key>>)
       IN  /\ panicked' = ~m.ok
           /\ sink' = Track(IF m.ok
                            THEN sink (+) SetToBag({"idling..."})
                                      (+) SetToBag({m.val})
                            ELSE print("idling..."), sink)
    /\ x' = [x EXCEPT ![Idle] = 0]
    /\ leds' = [leds EXCEPT ![Idle] = NoLeds]
    /\ pc' = [pc EXCEPT ![Idle] = "loop"]
    /\ UNCHANGED <<stack, basepri, saved, holders, chan, exec, ready, local,
                   frame, hist, cs, live>>

\* for (x,y) in led_states: leds[x][y] = 1; ctx.shared.display.lock(
\* (A recorded run ends with the first frame of the cycle that follows
\* MaxIdleCount complete ones.)
IdleLockDisplay ==
    /\ Runs(Idle)
    /\ pc[Idle] = "loop"
    /\ x[Idle] < Len(led_states)
    /\ (local.idle_count < MaxIdleCount \/ x[Idle] = 0)
    /\ leds' = [leds EXCEPT ![Idle] = @ \cup {led_states[x[Idle] + 1]}]
    /\ LockEnter(Idle, "display")
    /\ pc' = [pc EXCEPT ![Idle] = "lock_timer"]
    /\ UNCHANGED <<stack, chan, exec, ready, local, x, frame, sink, panicked,
                   hist, cs, live>>

\* ctx.shared.timer.lock(
IdleLockTimer ==
    /\ Runs(Idle)
    /\ pc[Idle] = "lock_timer"
    /\ LockEnter(Idle, "timer")
    /\ pc' = [pc EXCEPT ![Idle] = "show"]
    /\ UNCHANGED <<stack, chan, exec, ready, local, x, leds, frame, sink,
                   panicked, hist, cs, live>>

\* display.show(timer, leds, 250) starts driving the grid ...
IdleShowBegin ==
    /\ Runs(Idle)
    /\ pc[Idle] = "show"
    /\ frame' = [by |-> Idle, leds |-> leds[Idle], dur |-> IdleDuration]
    /\ pc' = [pc EXCEPT ![Idle] = "showing"]
    /\ UNCHANGED <<stack, basepri, saved, holders, chan, exec, ready, local,
                   x, leds, sink, panicked, hist, cs, live>>

\* ... and returns when the duration has elapsed.
IdleShowEnd ==
    /\ Runs(Idle)
    /\ pc[Idle] = "showing"
    /\ frame' = NoFrame
    /\ hist' = Track([hist EXCEPT !.shown[Idle] = @ + 1], hist)
    /\ pc' = [pc EXCEPT ![Idle] = "unlock_timer"]
    /\ UNCHANGED <<stack, basepri, saved, holders, chan, exec, ready, local,
                   x, leds, sink, panicked, cs, live>>

IdleUnlockTimer ==
    /\ Runs(Idle)
    /\ pc[Idle] = "unlock_timer"
    /\ LockExit(Idle, "timer")
    /\ pc' = [pc EXCEPT ![Idle] = "unlock_display"]
    /\ UNCHANGED <<stack, chan, exec, ready, local, x, leds, frame, sink,
                   panicked, hist, cs, live>>

\* End of the display.lock closure; leds = leds_empty; next position.
IdleUnlockDisplay ==
    /\ Runs(Idle)
    /\ pc[Idle] = "unlock_display"
    /\ LockExit(Idle, "display")
    /\ leds' = [leds EXCEPT ![Idle] = NoLeds]
    /\ x' = [x EXCEPT ![Idle] = @ + 1]
    /\ pc' = [pc EXCEPT ![Idle] = "loop"]
    /\ UNCHANGED <<stack, chan, exec, ready, local, frame, sink, panicked,
                   hist, cs, live>>

\* After the for loop: *idle_count += 1; log_count; next round of the loop.
IdleCount ==
    /\ Runs(Idle)
    /\ pc[Idle] = "loop"
    /\ x[Idle] >= Len(led_states)
    /\ local' = Track([local EXCEPT !.idle_count = @ + 1], local)
    /\ LogCount("Idle count: ", local.idle_count + 1)
    /\ x' = [x EXCEPT ![Idle] = 0]
    /\ UNCHANGED <<pc, stack, basepri, saved, holders, chan, exec, ready,
                   leds, frame, hist, cs, live>>

IdleStep ==
    \/ IdleStart \/ IdleLockDisplay \/ IdleLockTimer \/ IdleShowBegin
    \/ IdleShowEnd \/ IdleUnlockTimer \/ IdleUnlockDisplay \/ IdleCount

\* ---------------------------------------------------------- specification
Next ==
    \/ \E c \in 0 .. 1 : Edge(c)
    \/ HEnter
    \/ \E c \in 0 .. 1 : HChan(c)
    \/ HExit
    \/ \E t \in SwTasks : TStart(t)
    \/ \E t \in SwTasks : TLockDisplay(t)
    \/ \E t \in SwTasks : TLockTimer(t)
    \/ \E t \in SwTasks : TShowBegin(t)
    \/ \E t \in SwTasks : TShowEnd(t)
    \/ \E t \in SwTasks : TUnlockTimer(t)
    \/ \E t \in SwTasks : TUnlockDisplay(t)
    \/ \E t \in SwTasks : TReturn(t)
    \/ IdleStart
    \/ IdleLockDisplay
    \/ IdleLockTimer
    \/ IdleShowBegin
    \/ IdleShowEnd
    \/ IdleUnlockTimer
    \/ IdleUnlockDisplay
    \/ IdleCount

Spec == Init /\ [][Next]_vars


\* ================================================================ claims
LockUsers == {Idle, TaskA, TaskB}
Shared == {"display", "timer"}
CtxStep(t) == IF t = Idle THEN IdleStep ELSE TaskStep(t)
ChanPc(c) == IF c = 0 THEN "chan0" ELSE "chan1"
EffectivePriority(t) == IF basepri > Priority(t) THEN basepri ELSE Priority(t)

\* C1: priority-ceiling invariant.  While a context is inside a lock on
\* display or timer, no step is taken by any other of idle,
\* button_a_action, button_b_action; only the holder itself and the
\* priority-3 handler button_pressed run.
C1_PriorityCeiling ==
    [][\A r \in Shared : \A h \in holders[r] :
          \A t \in LockUsers \ {h} : ~CtxStep(t)]_vars

\* Reached: button_a_action is inside its lock and runs while
\* button_b_action is pending and kept out by the ceiling.
C1_Witness ==
    /\ holders["display"] = {TaskA}
    /\ Top = TaskA
    /\ ready[TaskB] = 1

\* C2: no task waits for a lock.  Whenever idle, button_a_action or
\* button_b_action enters a lock on display or timer the resource has no
\* holder, and a resource never has more than one holder.
C2_NoWait ==
    /\ [](\A r \in Shared : Cardinality(holders[r]) <= 1)
    /\ [][\A r \in Shared : \A t \in LockUsers :
            (t \in holders'[r] /\ t \notin holders[r]) => holders[r] = {}]_vars

\* Reached: button_b_action holds display and timer while idle and
\* button_a_action are both preempted outside their locks.
C2_Witness ==
    /\ Held(TaskB) = Shared
    /\ Active(TaskA)
    /\ pc[Idle] = "loop"
    /\ x[Idle] > 0

\* C3: inside a scoped acquisition the effective priority of the running
\* holder equals the maximum ceiling of the resources it holds (after each
\* nested step), and outside it equals the context's own priority again
\* (idle 0, button_a_action 1, button_b_action 2).
C3_Elevation ==
    \A t \in LockUsers :
        Top = t =>
            IF Held(t) = {}
            THEN EffectivePriority(t) = Priority(t)
            ELSE EffectivePriority(t) = MaxOf({Ceiling(r) : r \in Held(t)})

\* Reached: button_a_action, back at priority 1 after a scoped acquisition
\* that preempted idle after one of idle's own.
C3_Witness ==
    /\ Top = TaskA
    /\ pc[TaskA] = "loop"
    /\ hist.shown[TaskA] >= 1
    /\ hist.shown[Idle] >= 1
    /\ EffectivePriority(TaskA) = 1

\* C4: when the handler sees a triggered channel whose task slot is
\* occupied, the flag is cleared, "failed to spawn task!" is logged, and
\* nothing else changes: no dispatch request, no counter, no step of the
\* task.  Two events on channel 0 of which the second was handled before
\* the first instance returned give one completed activation.
C4_QueueFull ==
    /\ [][\A c \in 0 .. 1 :
            (/\ pc[Handler] = ChanPc(c)
             /\ pc'[Handler] # ChanPc(c)
             /\ chan[c]
             /\ exec[TaskOf(c)])
            => /\ sink' = sink (+) SetToBag({ButtonMsg(c)})
                               (+) SetToBag({"failed to spawn task!"})
               /\ ~chan'[c]
               /\ ready' = ready
               /\ exec' = exec
               /\ local' = local
               /\ pc'[TaskOf(c)] = pc[TaskOf(c)]
               /\ x' = x /\ leds' = leds /\ frame' = frame
               /\ hist'.act = hist.act /\ hist'.shown = hist.shown]_vars
    /\ []((/\ hist.handled[0] = 2
           /\ hist.busy[0] = 1
           /\ ~exec[TaskA])
          => /\ local.button_a = 1
             /\ hist.act[TaskA] = 1
             /\ CopiesIn("failed to spawn task!", sink) >= 1)

\* Reached: the second channel-0 event was dropped and the one instance
\* has returned.
C4_Witness ==
    /\ hist.handled[0] = 2
    /\ hist.failed[0] = 1
    /\ ~exec[TaskA]
    /\ hist.act[TaskA] = 1

\* C5: each software task has at most one pending instance.
C5_OnePending == \A t \in SwTasks : ready[t] \in {0, 1}

\* Reached: an instance of button_a_action is pending and a further event
\* on its channel has been handled.
C5_Witness ==
    /\ ready[TaskA] = 1
    /\ hist.handled[0] = 2


\* C6: N events on a channel, each handled on its own and only while the
\* task's slot was free, give exactly N activations once the last instance
\* has returned: the activation counter is N and 5 * N frames were shown.
C6_NActivations ==
    \A c \in 0 .. 1 :
        LET t == TaskOf(c)
            N == hist.edges[c]
        IN  (/\ hist.handled[c] = N
             /\ hist.busy[c] = 0
             /\ ~exec[t])
            => /\ local[Counter(t)] = N
               /\ hist.act[t] = N
               /\ hist.shown[t] = 5 * N

\* Reached: two events on channel 0, each handled after the previous
\* instance had returned, and the second instance has returned.
C6_Witness ==
    /\ hist.edges[0] = 2
    /\ hist.handled[0] = 2
    /\ hist.busy[0] = 0
    /\ ~exec[TaskA]
    /\ hist.shown[TaskA] = 10

\* C7: one event on channel 0 with the slot free gives one activation of
\* button_a_action that shows exactly 5 frames and returns; frame k lights
\* exactly the cells leds[k][0..4] for 400, and leds is empty again before
\* the next frame is filled.
C7_OneActivation ==
    /\ frame.by = TaskA =>
          /\ frame.leds = {<<hist.shown[TaskA] % 5, y>> : y \in 0 .. 4}
          /\ Cardinality(frame.leds) = 5
          /\ frame.dur = 400
    /\ pc[TaskA] = "loop" => leds[TaskA] = {}
    /\ (hist.edges[0] = 1 /\ hist.handled[0] = 1 /\ ~exec[TaskA]) =>
          /\ local.button_a = 1
          /\ hist.act[TaskA] = 1
          /\ hist.shown[TaskA] = 5
          /\ pc[TaskA] = "inactive"

\* Reached: after the one event, button_a_action is showing its last frame.
C7_Witness ==
    /\ hist.edges[0] = 1
    /\ frame.by = TaskA
    /\ hist.shown[TaskA] = 4
    /\ frame.leds = {<<4, 0>>, <<4, 1>>, <<4, 2>>, <<4, 3>>, <<4, 4>>}

\* The scenario of one event on channel 0, handled with the slot free, whose
\* instance has returned.
OneEdgeDone ==
    /\ hist.edges[0] = 1
    /\ hist.edges[1] = 0
    /\ hist.handled[0] = 1
    /\ ~exec[TaskA]

CountPrefixes ==
    {"button pressed count: ", "Task A count: ", "Task B count: ", "Idle count: "}

\* Number of copies in `bag` of the messages `msgs`.
RECURSIVE Copies(_, _)
Copies(msgs, bag) ==
    IF msgs = {} THEN 0
    ELSE LET m == CHOOSE m \in msgs : TRUE
         IN  CopiesIn(m, bag) + Copies(msgs \ {m}, bag)

\* Number of messages in the sink that log_count made for one of `prefixes`
\* and a value in `values`.
CountMsgs(prefixes, values) ==
    Copies({log_count_msg(p, v).val : p \in prefixes, v \in values}, sink)

\* C8 as stated: in the scenario the sink holds exactly one count message
\* with value 1.
C8_Original == OneEdgeDone => CountMsgs(CountPrefixes, {1}) = 1

\* C8 (amended): in the scenario the sink holds exactly one "Task A count: "
\* message and its value is 1, next to exactly one "button pressed count: "
\* message, also of value 1, and at most one "Idle count: 1".
C8_TaskCountOnce ==
    OneEdgeDone =>
        /\ CountMsgs({"Task A count: "}, 0 .. MaxEdges + 1) = 1
        /\ CountMsgs({"Task A count: "}, {1}) = 1
        /\ CountMsgs({"button pressed count: "}, 0 .. MaxEdges + 1) = 1
        /\ CountMsgs({"button pressed count: "}, {1}) = 1
        /\ CountMsgs({"Task B count: "}, 0 .. MaxEdges + 1) = 0
        /\ CountMsgs({"Idle count: "}, {1}) <= 1

\* Reached: the scenario is over and the sink holds both count messages of
\* value 1.
C8_Witness ==
    /\ OneEdgeDone
    /\ CopiesIn("Task A count: 1", sink) = 1
    /\ CopiesIn("button pressed count: 1", sink) = 1

\* C9 as stated: idle_count always equals the idle frames shown so far
\* divided by 8, rounded down.
C9_Original == local.idle_count = hist.shown[Idle] \div 8

\* idle is past the 8th frame of a cycle and before the increment of
\* idle_count that follows the for loop.
IdleCycleClosing ==
    \/ pc[Idle] = "loop" /\ x[Idle] >= 8
    \/ pc[Idle] \in {"unlock_timer", "unlock_display"} /\ x[Idle] = 7

\* C9 (amended): idle never stops, and idle_count equals the idle frames
\* shown so far divided by 8, rounded down, except between the end of the
\* 8th frame of a cycle and the increment after the loop, where it is one
\* less.
C9_IdleCount ==
    /\ ~panicked
    /\ pc[Idle] \in {"start", "loop", "lock_timer", "show", "showing",
                     "unlock_timer", "unlock_display"}
    /\ IF IdleCycleClosing
       THEN /\ hist.shown[Idle] % 8 = 0
            /\ local.idle_count + 1 = hist.shown[Idle] \div 8
       ELSE local.idle_count = hist.shown[Idle] \div 8

\* Reached: idle has counted a full cycle during which both tasks ran.
C9_Witness ==
    /\ local.idle_count = 1
    /\ hist.shown[Idle] = 8
    /\ hist.act[TaskA] >= 1
    /\ hist.act[TaskB] >= 1

\* ------------------------------------------------- compose_string, alone
Parts == {"", "a", "bc", "def"}

RECURSIVE Lists(_)
Lists(n) ==
    IF n = 0 THEN {<<>>}
    ELSE LET shorter == Lists(n - 1)
         IN  shorter \cup {Append(l, p) : l \in shorter, p \in Parts}

InitCompose ==
    /\ InitMain
    /\ live = FALSE
    /\ cs \in {[N |-> n, xs |-> l, called |-> FALSE, res |-> Err] :
                 n \in 0 .. MaxCap, l \in Lists(MaxParts)}

\* One call compose_string::<N>(xs).
Compose ==
    /\ ~cs.called
    /\ cs' = [cs EXCEPT !.called = TRUE, !.res = compose_string(cs.N, cs.xs)]
    /\ UNCHANGED <<pc, stack, basepri, saved, holders, chan, exec, ready,
                   local, x, leds, frame, sink, panicked, hist, live>>

SpecCompose == InitCompose /\ [][Compose]_vars

RECURSIVE Concat(_)
Concat(xs) == IF xs = <<>> THEN "" ELSE Head(xs) \o Concat(Tail(xs))

\* C10: compose_string is total-or-fails.  When the parts together are at
\* most N long the result is Ok with their concatenation in order;
\* otherwise it is the error and carries no string.
C10_TotalOrFails ==
    cs.called =>
        IF Len(Concat(cs.xs)) <= cs.N
        THEN cs.res = [ok |-> TRUE, val |-> Concat(cs.xs)]
        ELSE cs.res = [ok |-> FALSE]

\* Reached: a call that fails at its last part after two parts were pushed.
C10_Witness ==
    /\ cs.called
    /\ cs.xs = <<"a", "bc", "def">>
    /\ cs.N = 4
    /\ ~cs.res.ok

\* C11: when the handler inspects a channel, a triggered flag is cleared and
\* exactly one spawn of the channel's task is attempted (channel 0:
\* button_a_action, channel 1: button_b_action), which either takes the free
\* slot or fails; the flag is cleared in both cases.  A flag that is not
\* triggered is left alone and nothing is spawned.  The other channel and the
\* other task are not touched, and a channel is inspected at most once per
\* run of the handler.
C11_ClearAndSpawnOnce ==
    /\ [][\A c \in 0 .. 1 :
            (pc[Handler] = ChanPc(c) /\ pc'[Handler] # ChanPc(c)) =>
                LET t == IF c = 0 THEN TaskA ELSE TaskB
                    u == IF c = 0 THEN TaskB ELSE TaskA
                IN  /\ chan'[1 - c] = chan[1 - c]
                    /\ ready'[u] = ready[u]
                    /\ exec'[u] = exec[u]
                    /\ IF chan[c]
                       THEN /\ ~chan'[c]
                            /\ hist'.handled[c] = hist.handled[c] + 1
                            /\ \/ /\ ~exec[t] /\ exec'[t]
                                  /\ ready'[t] = ready[t] + 1
                                  /\ hist'.failed = hist.failed
                               \/ /\ exec[t] /\ exec'[t]
                                  /\ ready'[t] = ready[t]
                                  /\ hist'.failed[c] = hist.failed[c] + 1
                       ELSE /\ chan' = chan
                            /\ ready' = ready
                            /\ exec' = exec
                            /\ sink' = sink
                            /\ hist' = hist]_vars
    /\ [](\A c \in 0 .. 1 : hist.handled[c] <= local.button_pressed)

\* Reached: a run of the handler that cleared channel 0 although the spawn
\* failed and found channel 1 not triggered.
C11_Witness ==
    /\ pc[Handler] = "exit"
    /\ hist.handled[0] = 2
    /\ hist.failed[0] = 1
    /\ ~chan[0]
    /\ hist.handled[1] = 0
    /\ local.button_pressed = 2

\* C12: dispatch is strictly by priority.  While button_b_action and
\* button_a_action are both pending, button_a_action does not start (so
\* button_b_action starts first), and no software task starts while the
\* handler button_pressed is running.
C12_StrictPriority ==
    /\ [][(ready[TaskA] > 0 /\ ready[TaskB] > 0) => ~TStart(TaskA)]_vars
    /\ [][Active(Handler) => \A t \in SwTasks : ~TStart(t)]_vars

\* Reached: one run of the handler made both tasks pending and
\* button_b_action has started while button_a_action still waits.
C12_Witness ==
    /\ local.button_pressed = 1
    /\ Top = TaskB
    /\ ready[TaskA] = 1
    /\ ~Active(TaskA)
    /\ local.button_a = 0
    /\ local.button_b = 1

\* ---------------------------------------------------------------- fairness
\* The steps of the program itself (everything but the button edges).
Program ==
    \/ HandlerStep
    \/ \E t \in SwTasks : TaskStep(t)
    \/ IdleStep

\* Runs of unboundedly many button events: nothing is recorded, so the guards
\* on hist.edges and idle_count never close.
InitLive == InitMain /\ cs = NoCompose /\ live = TRUE

\* The processor always executes the next step of the context that owns it;
\* the environment is under no obligation to produce edges, nor to stop.
SpecLive == InitLive /\ [][Next]_vars /\ WF_vars(Program)

\* No event flag is set.
Quiet == ~chan[0] /\ ~chan[1]

\* C13 as stated: an occupied task slot is eventually free again, whatever
\* events keep arriving.
C13_Original == \A t \in SwTasks : exec[t] ~> ~exec[t]

\* C13: no pending instance is revoked (a dispatch request is removed only by
\* the start of its task, the slot is freed only by the return after the 5
\* frames), and every instance marked pending is completed provided the
\* button events eventually stop arriving.
C13_RunsToCompletion ==
    /\ [][\A t \in SwTasks :
            /\ ready'[t] < ready[t] => TStart(t)
            /\ (exec[t] /\ ~exec'[t]) => (TReturn(t) /\ x[t] = 5)]_vars
    /\ \A t \in SwTasks : <>[]Quiet => [](exec[t] => <>~exec[t])

\* Reached: button_a_action has shown its 5 frames and is preempted by an
\* instance of button_b_action just before it returns, while the next event
\* on channel 1 has arrived.
C13_Witness ==
    /\ live
    /\ exec[TaskA] /\ pc[TaskA] = "loop" /\ x[TaskA] = 5
    /\ Top = TaskB
    /\ chan[1]

\* C14: display.show is called only inside the locks on display and timer.
\* A context at the call or inside it is the one holder of both resources,
\* BASEPRI is at their ceiling, and the frame on the grid is the frame of the
\* holder: no frame is shown without display locked by the task showing it.
C14_ShowOnlyLocked ==
    /\ \A t \in LockUsers :
          pc[t] \in {"show", "showing"} =>
             /\ holders["display"] = {t}
             /\ holders["timer"] = {t}
             /\ basepri >= 2
    /\ \A t \in LockUsers : pc[t] = "showing" <=> frame.by = t
    /\ frame.by \in LockUsers \cup {"none"}

\* Reached: button_b_action shows a frame inside its locks, having preempted
\* button_a_action, which is outside its locks.
C14_Witness ==
    /\ frame.by = TaskB
    /\ pc[TaskB] = "showing"
    /\ Active(TaskA)
    /\ Held(TaskA) = {}
    /\ Held(TaskB) = {"display", "timer"}

\* C15: a step of button_pressed leaves the frame on the grid, the holders of
\* display and timer, the activation counters, idle_count, the grids and loop
\* positions of the other contexts and their frame history unchanged; the only
\* resource the handler ever holds is gpiote, nothing preempts it, and its
\* next step is always possible (it never waits).
C15_HandlerFrame ==
    /\ [][HandlerStep =>
            /\ frame' = frame
            /\ holders'["display"] = holders["display"]
            /\ holders'["timer"] = holders["timer"]
            /\ local'.button_a = local.button_a
            /\ local'.button_b = local.button_b
            /\ local'.idle_count = local.idle_count
            /\ leds' = leds
            /\ x' = x
            /\ \A t \in LockUsers : pc'[t] = pc[t]
            /\ hist'.shown = hist.shown
            /\ hist'.act = hist.act]_vars
    /\ [](Held(Handler) \subseteq {"gpiote"})
    /\ [](Active(Handler) => (Top = Handler /\ ENABLED HandlerStep))

\* Reached: the handler is about to return from a run that took an event on
\* each channel while idle was showing a frame inside its locks; the frame
\* and the locks are still idle's.
C15_Witness ==
    /\ pc[Handler] = "exit"
    /\ hist.handled[0] = 1
    /\ hist.handled[1] = 1
    /\ local.button_pressed = 1
    /\ frame.by = Idle
    /\ holders["display"] = {Idle}
    /\ holders["timer"] = {Idle}
    /\ local.button_a = 0
    /\ local.button_b = 0

\* C16: while an instance of a task is active no context of lower or equal
\* priority takes a step.  idle takes no step (so renders no frame) during an
\* instance of button_a_action or button_b_action, button_a_action takes no
\* step during an instance of button_b_action, no second instance of a task
\* starts during one, and during an instance of button_b_action the frame on
\* the grid changes only by button_b_action itself: its 5 frames are
\* consecutive on the display.
C16_NoLowerActivity ==
    /\ [][(Active(TaskA) \/ Active(TaskB)) => ~IdleStep]_vars
    /\ [][Active(TaskB) => ~TaskStep(TaskA)]_vars
    /\ [][\A t \in SwTasks : Active(t) => ~TStart(t)]_vars
    /\ [][(Active(TaskB) /\ frame' # frame) =>
            (TShowBegin(TaskB) \/ TShowEnd(TaskB))]_vars
    /\ [](Active(TaskB) => frame.by \in {TaskB, "none"})
    /\ [](Active(TaskA) => frame.by \in {TaskA, TaskB, "none"})

\* Reached: button_b_action is between its third and fourth frame, having
\* preempted button_a_action after two frames and idle after one.
C16_Witness ==
    /\ Top = TaskB
    /\ pc[TaskB] = "loop"
    /\ x[TaskB] = 3
    /\ Active(TaskA)
    /\ x[TaskA] = 2
    /\ x[Idle] = 1
    /\ hist.shown[TaskB] = 3
    /\ hist.shown[TaskA] = 2
    /\ hist.shown[Idle] = 1

\* The positions idle lights, in order.
IdleCycle ==
    << <<1, 1>>, <<1, 2>>, <<1, 3>>, <<2, 3>>,
       <<3, 3>>, <<3, 2>>, <<3, 1>>, <<2, 1>> >>

\* C17: the n-th frame idle renders (n counted from 0 over the whole run,
\* whatever preempted idle in between) lights exactly the cell at position
\* n mod 8 of the cycle (1,1), (1,2), (1,3), (2,3), (3,3), (3,2), (3,1),
\* (2,1), for 250 ms; idle's grid holds that one cell from the assignment to
\* the end of the lock and is empty again before the next frame.
C17_IdleCycle ==
    /\ frame.by = Idle =>
          /\ frame.leds = {IdleCycle[(hist.shown[Idle] % 8) + 1]}
          /\ frame.dur = 250
    /\ pc[Idle] \in {"start", "loop"} => leds[Idle] = {}
    /\ pc[Idle] \in {"lock_timer", "show", "showing", "unlock_timer",
                     "unlock_display"} =>
          leds[Idle] = {IdleCycle[(hist.shown[Idle] % 8) + 1]}
             \/ (pc[Idle] \in {"unlock_timer", "unlock_display"}
                 /\ leds[Idle] = {IdleCycle[((hist.shown[Idle] - 1) % 8) + 1]})

\* Reached: idle shows its 9th frame, position (1,1) again, after both tasks
\* and the handler have run between its frames.
C17_Witness ==
    /\ frame.by = Idle
    /\ hist.shown[Idle] = 8
    /\ frame.leds = {<<1, 1>>}
    /\ hist.act[TaskA] >= 1
    /\ hist.act[TaskB] >= 1
    /\ local.idle_count = 1

\* --------------------------------------------------------- log_count, alone
\* The prefixes the program passes to log_count.
Prefixes ==
    {"button pressed count: ", "Task A count: ", "Task B count: ",
     "Idle count: "}

\* Limbs of the counts tried: 0, the ends of the limb, and the limbs of the
\* powers of ten and of their predecessors up to 10^9 = 15258 * 2^16 + 51712
\* and 2^32 - 1 = 65535 * 2^16 + 65535.
HiLimbs == {0, 1, 15, 152, 1525, 15258, 32767, 32768, 65535}
LoLimbs ==
    {0, 1, 9, 10, 99, 100, 999, 1000, 9999, 10000, 16959, 16960, 34463,
     34464, 38527, 38528, 51711, 51712, 57599, 57600, 65535}

InitLog ==
    /\ InitMain
    /\ live = FALSE
    /\ cs \in {[message |-> m, hi |-> h, lo |-> l, called |-> FALSE,
                res |-> Err] : m \in Prefixes, h \in HiLimbs, l \in LoLimbs}

\* One call log_count(message, count) as far as the two unwraps.
LogCountCall ==
    /\ ~cs.called
    /\ cs' = [cs EXCEPT
                !.called = TRUE,
                !.res = log_count_digits(cs.message, DecimalU32(cs.hi, cs.lo))]
    /\ UNCHANGED <<pc, stack, basepri, saved, holders, chan, exec, ready,
                   local, x, leds, frame, sink, panicked, hist, live>>

SpecLog == InitLog /\ [][LogCountCall]_vars

\* C18: for each prefix the program uses and every count tried up to
\* 2^32 - 1, log_count fails at neither unwrap: the digits are at most 10
\* characters, the message is the prefix followed by the digits and is at
\* most 32 characters.  (Where the count fits one model integer the limb
\* conversion agrees with Decimal.)
C18_NoOverflow ==
    cs.called =>
        LET digits == DecimalU32(cs.hi, cs.lo)
        IN  /\ cs.res.ok
            /\ Len(digits) <= 10
            /\ cs.res.val = cs.message \o digits
            /\ Len(cs.res.val) <= 32
            /\ cs.hi < 32768 => digits = Decimal(cs.hi * 65536 + cs.lo)

\* Reached: the longest prefix with the largest count fills the message
\* buffer exactly.
C18_Witness ==
    /\ cs.called
    /\ cs.hi = 65535
    /\ cs.lo = 65535
    /\ cs.res = [ok |-> TRUE, val |-> "button pressed count: 4294967295"]
    /\ Len(cs.res.val) = 32

\* C19: button_pressed grows by exactly 1 at the entry of each handler run
\* and changes at no other step, and in every state button_a and button_b are
\* at most button_pressed.
C19_HandlerCount ==
    /\ [][local'.button_pressed =
            local.button_pressed + (IF HEnter THEN 1 ELSE 0)]_vars
    /\ [](local.button_a <= local.button_pressed)
    /\ [](local.button_b <= local.button_pressed)

\* Reached: one handler run took an event on each channel and both tasks
\* have started since; the three counters are equal.
C19_Witness ==
    /\ local.button_pressed = 1
    /\ local.button_a = 1
    /\ local.button_b = 1
    /\ hist.handled[0] = 1
    /\ hist.handled[1] = 1
    /\ ~Active(Handler)

====
